---- MODULE Spec2Model ----
(***************************************************************************)
(* Model of the mock hexapod robot servers of robot-spider-control:        *)
(*   src/mock_robot/mock_robot_server.py      (WebSocket variant, "ws")    *)
(*   src/mock_robot/mock_bluetooth_server.py  (Bluetooth variant, "bt")    *)
(* Text is modelled as sequences of one-character strings so that          *)
(* strip(), lower() and the f-string formatting are computed, not assumed. *)
(***************************************************************************)
EXTENDS Integers, Sequences, FiniteSets, TLC

\* ---------------------------------------------------------------- bounds
NumClients == 2
MaxMsgs == 2

Clients == 1..NumClients

\* ------------------------------------------------------------------ text
UpperChars == <<"A","B","C","D","E","F","G","H","I","J","K","L","M",
                "N","O","P","Q","R","S","T","U","V","W","X","Y","Z">>
LowerChars == <<"a","b","c","d","e","f","g","h","i","j","k","l","m",
                "n","o","p","q","r","s","t","u","v","w","x","y","z">>

\* the characters str.strip() removes (ASCII whitespace)
Whitespace == {" ", "\t", "\n", "\r"}

\* a byte that is not valid UTF-8
BadByte == "xFF"

\* str.lower() on one character
LowerChar(ch) ==
  IF \E i \in 1..Len(UpperChars) : UpperChars[i] = ch
  THEN LowerChars[CHOOSE i \in 1..Len(UpperChars) : UpperChars[i] = ch]
  ELSE ch

\* str.lower()
Lower(s) == [i \in 1..Len(s) |-> LowerChar(s[i])]

RECURSIVE LStrip(_)
LStrip(s) ==
  IF s # <<>> /\ Head(s) \in Whitespace THEN LStrip(Tail(s)) ELSE s

RECURSIVE RStrip(_)
RStrip(s) ==
  IF s # <<>> /\ s[Len(s)] \in Whitespace
  THEN RStrip(SubSeq(s, 1, Len(s) - 1)) ELSE s

\* str.strip()
Strip(s) == RStrip(LStrip(s))

\* command = message.strip().lower()
Normalize(message) == Lower(Strip(message))

\* VALID_COMMANDS = {"init", "forward", "backward", "left", "right"}
VALID_COMMANDS ==
  { <<"i","n","i","t">>,
    <<"f","o","r","w","a","r","d">>,
    <<"b","a","c","k","w","a","r","d">>,
    <<"l","e","f","t">>,
    <<"r","i","g","h","t">> }

IsValid_Prefix(command) ==
  \E v \in VALID_COMMANDS :
    /\ Len(command) >= 3 /\ Len(command) <= Len(v)
    /\ SubSeq(v, 1, Len(command)) = command

\* command in VALID_COMMANDS
IsValid(command) == command \in VALID_COMMANDS

AckMessage_Upper(command) ==
  <<"O","K",":">> \o [i \in 1..Len(command) |->
     IF \E k \in 1..Len(LowerChars) : LowerChars[k] = command[i]
     THEN UpperChars[CHOOSE k \in 1..Len(LowerChars) : LowerChars[k] = command[i]]
     ELSE command[i]]

\* f"OK:{command}"
AckMessage(command) == <<"O","K",":">> \o command

ErrorMessage_NoQuotes(command) ==
  <<"E","R","R","O","R",":","U","n","k","n","o","w","n"," ",
    "c","o","m","m","a","n","d"," ">> \o command

\* f"ERROR:Unknown command '{command}'"
ErrorMessage(command) ==
  <<"E","R","R","O","R",":","U","n","k","n","o","w","n"," ",
    "c","o","m","m","a","n","d"," ","'">> \o command \o <<"'">>

Reply_IgnoresFlag(acks, command) ==
  IF IsValid(command)
  THEN <<AckMessage(command)>>
  ELSE <<ErrorMessage(command)>>

\* The messages the handler writes for one classified command:
\* the two "if self.send_acks" branches of handle_client.
Reply(acks, command) ==
  IF IsValid(command)
  THEN (IF acks THEN <<AckMessage(command)>> ELSE <<>>)
  ELSE (IF acks THEN <<ErrorMessage(command)>> ELSE <<>>)

CountAfter_EveryMessage(count, command) == count + 1

\* self.command_count += 1 on the valid branch only
CountAfter(count, command) ==
  IF IsValid(command) THEN count + 1 ELSE count

\* data.decode('utf-8') raises UnicodeDecodeError on an invalid byte
Decodable(data) == \A i \in 1..Len(data) : data[i] # BadByte

\* ------------------------------------------------- what clients may send
Messages ==
  { <<" ","F","o","R","w","A","r","D","\n">>,
    <<" ","S","p","i","n"," ">>,
    <<BadByte>> }

\* ----------------------------------------------------------------- state
VARIABLES
  variant,            \* "ws" or "bt": which server program runs
  send_acks,          \* self.send_acks
  command_count,      \* self.command_count
  connected_clients,  \* ws: self.connected_clients
  zeroconf,           \* ws: self.zeroconf is not None
  service_info,       \* ws: self.service_info is not None
  server_sock,        \* the listening endpoint (bt: self.server_sock)
  client_sock,        \* bt: self.client_sock (0 is None)
  running,            \* bt: self.running
  advertised,         \* state of the discovery record
  alarm,              \* ws: a SIGALRM is pending (signal.alarm)
  sigalrm_handler,    \* ws: installed SIGALRM handler
  pc,                 \* position of the main thread / main task
  exc,                \* exception propagating on the main thread
  hpc,                \* position of each session handler
  conn,               \* state of each client's connection
  closes,             \* number of times each connection was closed
  inbox,              \* messages sent by a client, not yet read
  processed,          \* per client: the messages classified so far
  sent,               \* per client: the messages written to it so far
  sigint,             \* an interrupt signal was delivered
  logged,             \* kinds of log lines printed so far
  exit_status         \* "running", or how the process ended

vars == << variant, send_acks, command_count, connected_clients, zeroconf,
           service_info, server_sock, client_sock, running, advertised,
           alarm, sigalrm_handler, pc, exc, hpc, conn, closes,
           inbox, processed, sent, sigint, logged, exit_status >>

None == 0

\* MockRobotServer.__init__ / MockBluetoothRobotServer.__init__
Init ==
  /\ variant \in {"ws", "bt"}
  /\ send_acks \in BOOLEAN
  /\ command_count = 0
  /\ connected_clients = {}
  /\ zeroconf = FALSE
  /\ service_info = FALSE
  /\ server_sock = "None"
  /\ client_sock = None
  /\ running = FALSE
  /\ advertised = "none"
  /\ alarm = FALSE
  /\ sigalrm_handler = "default"
  /\ pc = "start"
  /\ exc = "none"
  /\ hpc = [c \in Clients |-> "none"]
  /\ conn = [c \in Clients |-> "idle"]
  /\ closes = [c \in Clients |-> 0]
  /\ inbox = [c \in Clients |-> <<>>]
  /\ processed = [c \in Clients |-> <<>>]
  /\ sent = [c \in Clients |-> <<>>]
  /\ sigint = FALSE
  /\ logged = {}
  /\ exit_status = "running"


\* --------------------------------------------------------------- helpers
RECURSIVE SumLen(_, _)
SumLen(f, n) == IF n = 0 THEN 0 ELSE Len(f[n]) + SumLen(f, n - 1)

\* number of messages clients have sent so far (read or still in flight)
TotalSent == SumLen(inbox, NumClients) + SumLen(processed, NumClients)

Live == exit_status = "running"

Add_Replace(set, c) == {c}

\* set.add(websocket)
Add(set, c) == set \cup {c}

Discard_Clear(set, c) == {}

\* set.discard(websocket)
Discard(set, c) == set \ {c}

\* -------------------------------------------------- clients (environment)
\* a connected client sends one message
ClientSend(c, m) ==
  /\ Live
  /\ conn[c] = "open"
  /\ TotalSent < MaxMsgs
  /\ variant = "ws" => Decodable(m)
  /\ inbox' = [inbox EXCEPT ![c] = Append(@, m)]
  /\ UNCHANGED << variant, send_acks, command_count, connected_clients,
                  zeroconf, service_info, server_sock, client_sock, running,
                  advertised, alarm, sigalrm_handler, pc, exc, hpc, conn,
                  closes, processed, sent, sigint, logged, exit_status >>

\* the peer closes its end of the connection in an orderly way
ClientClose(c) ==
  /\ Live
  /\ conn[c] = "open"
  /\ conn' = [conn EXCEPT ![c] = "peer_closed"]
  /\ UNCHANGED << variant, send_acks, command_count, connected_clients,
                  zeroconf, service_info, server_sock, client_sock, running,
                  advertised, alarm, sigalrm_handler, pc, exc, hpc, closes,
                  inbox, processed, sent, sigint, logged, exit_status >>

\* the transport to the peer breaks; what the peer had sent and the
\* server had not read is lost
ClientAbort(c) ==
  /\ Live
  /\ conn[c] = "open"
  /\ conn' = [conn EXCEPT ![c] = "error"]
  /\ inbox' = [inbox EXCEPT ![c] = <<>>]
  /\ UNCHANGED << variant, send_acks, command_count, connected_clients,
                  zeroconf, service_info, server_sock, client_sock, running,
                  advertised, alarm, sigalrm_handler, pc, exc, hpc, closes,
                  processed, sent, sigint, logged, exit_status >>

\* ------------------------------------------------------ WebSocket variant
WSRegisterMdns_Fatal ==
  /\ variant = "ws" /\ pc = "start" /\ Live
  /\ \E fail \in {"none", "zeroconf", "service_info", "register"} :
       /\ zeroconf' = (fail # "zeroconf")
       /\ service_info' = (fail \in {"none", "register"})
       /\ advertised' = IF fail = "none" THEN "published" ELSE "none"
       /\ logged' = IF fail = "none" THEN logged
                    ELSE logged \cup {"mdns_failed"}
       /\ pc' = IF fail = "none" THEN "serve" ELSE "shutdown"
  /\ UNCHANGED << variant, send_acks, command_count, connected_clients,
                  server_sock, client_sock, running, alarm, sigalrm_handler,
                  exc, hpc, conn, closes, inbox, processed, sent, sigint,
                  exit_status >>

\* MockRobotServer.register_mdns: any of its three steps may raise; the
\* exception is caught and logged inside register_mdns.
WSRegisterMdns ==
  /\ variant = "ws" /\ pc = "start" /\ Live
  /\ \E fail \in {"none", "zeroconf", "service_info", "register"} :
       /\ zeroconf' = (fail # "zeroconf")
       /\ service_info' = (fail \in {"none", "register"})
       /\ advertised' = IF fail = "none" THEN "published" ELSE "none"
       /\ logged' = IF fail = "none" THEN logged
                    ELSE logged \cup {"mdns_failed"}
  /\ pc' = "serve"
  /\ UNCHANGED << variant, send_acks, command_count, connected_clients,
                  server_sock, client_sock, running, alarm, sigalrm_handler,
                  exc, hpc, conn, closes, inbox, processed, sent, sigint,
                  exit_status >>

\* MockRobotServer.start: async with websockets.serve(...); binding the
\* port may raise OSError, which leaves start().
WSServe ==
  /\ variant = "ws" /\ pc = "serve" /\ Live
  /\ \/ /\ server_sock' = "listening"
        /\ pc' = "running"
        /\ logged' = logged
        /\ exc' = exc
     \/ /\ server_sock' = server_sock
        /\ pc' = "shutdown"
        /\ exc' = "OSError"
        /\ logged' = logged
  /\ UNCHANGED << variant, send_acks, command_count, connected_clients,
                  zeroconf, service_info, client_sock, running, advertised,
                  alarm, sigalrm_handler, hpc, conn, closes, inbox, processed,
                  sent, sigint, exit_status >>

\* MockRobotServer.handle_client up to its first await: a client connects,
\* a handler task is started for it and registers the connection.
\* (clients are interchangeable: they connect in index order)
WSConnect(c) ==
  /\ variant = "ws" /\ pc = "running" /\ Live
  /\ server_sock = "listening"
  /\ conn[c] = "idle"
  /\ \A b \in Clients : b < c => conn[b] # "idle"
  /\ conn' = [conn EXCEPT ![c] = "open"]
  /\ connected_clients' = Add(connected_clients, c)
  /\ hpc' = [hpc EXCEPT ![c] = "recv"]
  /\ UNCHANGED << variant, send_acks, command_count, zeroconf, service_info,
                  server_sock, client_sock, running, advertised, alarm,
                  sigalrm_handler, pc, exc, closes, inbox, processed, sent,
                  sigint, logged, exit_status >>

WSHandleMessage_WrongSession(c) ==
  /\ variant = "ws" /\ Live
  /\ hpc[c] = "recv"
  /\ conn[c] \in {"open", "peer_closed"}
  /\ inbox[c] # <<>>
  /\ LET message == Head(inbox[c])
         command == Normalize(message)
         reply == Reply(send_acks, command)
         other == (c % NumClients) + 1
     IN /\ processed' = [processed EXCEPT ![c] = Append(@, message)]
        /\ command_count' = CountAfter(command_count, command)
        /\ sent' = [sent EXCEPT ![other] = @ \o reply]
        /\ inbox' = [inbox EXCEPT ![c] = Tail(@)]
        /\ conn' = conn
  /\ UNCHANGED << variant, send_acks, connected_clients, zeroconf,
                  service_info, server_sock, client_sock, running, advertised,
                  alarm, sigalrm_handler, pc, exc, hpc, closes, sigint,
                  logged, exit_status >>

\* MockRobotServer.handle_client, one iteration of "async for message":
\* the message is classified and counted and, with acknowledgments, the
\* reply is written.  websocket.send raises ConnectionClosed when the
\* connection is lost before the reply is out; that ends the iteration.
WSHandleMessage(c) ==
  /\ variant = "ws" /\ Live
  /\ hpc[c] = "recv"
  /\ conn[c] \in {"open", "peer_closed"}
  /\ inbox[c] # <<>>
  /\ LET message == Head(inbox[c])
         command == Normalize(message)
         reply == Reply(send_acks, command)
     IN /\ processed' = [processed EXCEPT ![c] = Append(@, message)]
        /\ command_count' = CountAfter(command_count, command)
        /\ \/ /\ sent' = [sent EXCEPT ![c] = @ \o reply]
              /\ inbox' = [inbox EXCEPT ![c] = Tail(@)]
              /\ conn' = conn
           \/ /\ reply # <<>>
              /\ sent' = sent
              /\ inbox' = [inbox EXCEPT ![c] = <<>>]
              /\ conn' = [conn EXCEPT ![c] = "error"]
  /\ UNCHANGED << variant, send_acks, connected_clients, zeroconf,
                  service_info, server_sock, client_sock, running, advertised,
                  alarm, sigalrm_handler, pc, exc, hpc, closes, sigint,
                  logged, exit_status >>

\* the iteration ends (orderly close) or ConnectionClosed is raised
WSSessionOver(c) ==
  /\ hpc[c] = "recv"
  /\ \/ conn[c] = "peer_closed" /\ inbox[c] = <<>>
     \/ conn[c] \in {"error", "closed"}

\* MockRobotServer.handle_client: the except clauses and the finally block;
\* the library then closes the connection if it is not closed yet.
WSHandlerExit(c) ==
  /\ variant = "ws" /\ Live
  /\ WSSessionOver(c)
  /\ connected_clients' = Discard(connected_clients, c)
  /\ hpc' = [hpc EXCEPT ![c] = "done"]
  /\ conn' = [conn EXCEPT ![c] = "closed"]
  /\ closes' = [closes EXCEPT ![c] = IF conn[c] = "closed" THEN @ ELSE @ + 1]
  /\ inbox' = [inbox EXCEPT ![c] = <<>>]
  /\ UNCHANGED << variant, send_acks, command_count, zeroconf, service_info,
                  server_sock, client_sock, running, advertised, alarm,
                  sigalrm_handler, pc, exc, processed, sent, sigint, logged,
                  exit_status >>

\* Ctrl+C while start() awaits asyncio.Future(): the main task is
\* cancelled, start() swallows the CancelledError and leaves
\* "async with websockets.serve(...)", which closes the listening socket
\* and every open connection.
WSInterrupt ==
  /\ variant = "ws" /\ pc = "running" /\ Live
  /\ ~sigint
  /\ sigint' = TRUE
  /\ server_sock' = "closed"
  /\ conn' = [c \in Clients |->
               IF conn[c] \in {"open", "peer_closed", "error"}
               THEN "closed" ELSE conn[c]]
  /\ closes' = [c \in Clients |->
                 IF conn[c] \in {"open", "peer_closed", "error"}
                 THEN closes[c] + 1 ELSE closes[c]]
  /\ inbox' = [c \in Clients |-> <<>>]
  /\ pc' = "wait_closed"
  /\ UNCHANGED << variant, send_acks, command_count, connected_clients,
                  zeroconf, service_info, client_sock, running, advertised,
                  alarm, sigalrm_handler, exc, hpc, processed, sent, logged,
                  exit_status >>

\* ... and start() returns once every handler has finished
WSStartReturn ==
  /\ variant = "ws" /\ pc = "wait_closed" /\ Live
  /\ \A c \in Clients : hpc[c] \in {"none", "done"}
  /\ pc' = "shutdown"
  /\ UNCHANGED << variant, send_acks, command_count, connected_clients,
                  zeroconf, service_info, server_sock, client_sock, running,
                  advertised, alarm, sigalrm_handler, exc, hpc, conn, closes,
                  inbox, processed, sent, sigint, logged, exit_status >>

WSUnregisterMdns_Skipped ==
  /\ variant = "ws" /\ pc = "shutdown" /\ Live
  /\ pc' = "summary"
  /\ UNCHANGED << variant, send_acks, command_count, connected_clients,
                  zeroconf, service_info, server_sock, client_sock, running,
                  advertised, alarm, sigalrm_handler, exc, hpc, conn, closes,
                  inbox, processed, sent, sigint, logged, exit_status >>

\* MockRobotServer.shutdown -> unregister_mdns.  The retraction returns,
\* hangs until the 2 second alarm raises TimeoutError, or raises another
\* exception (the alarm then stays armed: signal.alarm(0) is skipped).
WSUnregisterMdns ==
  /\ variant = "ws" /\ pc = "shutdown" /\ Live
  /\ IF zeroconf /\ service_info
     THEN \E outcome \in {"ok", "timeout", "error"} :
            /\ advertised' = IF outcome = "ok" /\ advertised = "published"
                             THEN "retracted" ELSE advertised
            /\ alarm' = (outcome = "error")
            /\ logged' = CASE outcome = "ok" -> logged
                           [] outcome = "timeout" -> logged \cup {"mdns_timeout"}
                           [] OTHER -> logged \cup {"mdns_error"}
     ELSE UNCHANGED << advertised, alarm, logged >>
  /\ sigalrm_handler' = "default"
  /\ pc' = "summary"
  /\ UNCHANGED << variant, send_acks, command_count, connected_clients,
                  zeroconf, service_info, server_sock, client_sock, running,
                  exc, hpc, conn, closes, inbox, processed, sent, sigint,
                  exit_status >>

\* MockRobotServer.shutdown: the summary and "Server stopped"
WSSummary ==
  /\ variant = "ws" /\ pc = "summary" /\ Live
  /\ logged' = logged \cup {"summary", "stopped"}
  /\ pc' = "stopped"
  /\ UNCHANGED << variant, send_acks, command_count, connected_clients,
                  zeroconf, service_info, server_sock, client_sock, running,
                  advertised, alarm, sigalrm_handler, exc, hpc, conn, closes,
                  inbox, processed, sent, sigint, exit_status >>

\* main() and the __main__ block: an OSError from start() propagates out of
\* asyncio.run (traceback, status 1); otherwise the process ends normally.
WSExit ==
  /\ variant = "ws" /\ pc = "stopped" /\ Live
  /\ exit_status' = IF exc = "OSError" THEN "1" ELSE "0"
  /\ logged' = IF exc = "OSError" THEN logged \cup {"traceback"} ELSE logged
  /\ pc' = "exited"
  /\ UNCHANGED << variant, send_acks, command_count, connected_clients,
                  zeroconf, service_info, server_sock, client_sock, running,
                  advertised, alarm, sigalrm_handler, exc, hpc, conn, closes,
                  inbox, processed, sent, sigint >>

\* a SIGALRM that is still pending after unregister_mdns restored the
\* previous (default) handler terminates the process
AlarmFires ==
  /\ Live
  /\ alarm /\ sigalrm_handler = "default"
  /\ alarm' = FALSE
  /\ exit_status' = "SIGALRM"
  /\ pc' = "killed"
  /\ UNCHANGED << variant, send_acks, command_count, connected_clients,
                  zeroconf, service_info, server_sock, client_sock, running,
                  advertised, sigalrm_handler, exc, hpc, conn, closes, inbox,
                  processed, sent, sigint, logged >>

\* ------------------------------------------------------ Bluetooth variant
\* a peer connects to the RFCOMM channel and waits in the listen backlog
\* (peers are interchangeable: they connect in index order)
BTClientConnect(c) ==
  /\ variant = "bt" /\ Live
  /\ server_sock = "listening" /\ running
  /\ conn[c] = "idle"
  /\ \A b \in Clients : b < c => conn[b] # "idle"
  /\ conn' = [conn EXCEPT ![c] = "pending"]
  /\ UNCHANGED << variant, send_acks, command_count, connected_clients,
                  zeroconf, service_info, server_sock, client_sock, running,
                  advertised, alarm, sigalrm_handler, pc, exc, hpc, closes,
                  inbox, processed, sent, sigint, logged, exit_status >>

\* MockBluetoothRobotServer.start: create the socket, bind, listen.  A
\* BluetoothError is logged, start() returns and its finally runs shutdown.
BTBind ==
  /\ variant = "bt" /\ pc = "start" /\ Live
  /\ \/ /\ server_sock' = "listening"
        /\ pc' = "advertise"
        /\ logged' = logged
     \/ /\ server_sock' \in {"None", "created"}
        /\ pc' = "shutdown"
        /\ logged' = logged \cup {"bind_failed"}
  /\ UNCHANGED << variant, send_acks, command_count, connected_clients,
                  zeroconf, service_info, client_sock, running, advertised,
                  alarm, sigalrm_handler, exc, hpc, conn, closes, inbox,
                  processed, sent, sigint, exit_status >>

BTAdvertise_Continues ==
  /\ variant = "bt" /\ pc = "advertise" /\ Live
  /\ \/ /\ advertised' = "published"
        /\ logged' = logged
     \/ /\ advertised' = advertised
        /\ logged' = logged \cup {"advertise_failed"}
  /\ running' = TRUE
  /\ pc' = "accept"
  /\ UNCHANGED << variant, send_acks, command_count, connected_clients,
                  zeroconf, service_info, server_sock, client_sock, alarm,
                  sigalrm_handler, exc, hpc, conn, closes, inbox, processed,
                  sent, sigint, exit_status >>

\* MockBluetoothRobotServer.start: bluetooth.advertise_service, then
\* self.running = True
BTAdvertise ==
  /\ variant = "bt" /\ pc = "advertise" /\ Live
  /\ \/ /\ advertised' = "published"
        /\ running' = TRUE
        /\ pc' = "accept"
        /\ logged' = logged
     \/ /\ advertised' = advertised
        /\ running' = running
        /\ pc' = "shutdown"
        /\ logged' = logged \cup {"advertise_failed"}
  /\ UNCHANGED << variant, send_acks, command_count, connected_clients,
                  zeroconf, service_info, server_sock, client_sock, alarm,
                  sigalrm_handler, exc, hpc, conn, closes, inbox, processed,
                  sent, sigint, exit_status >>

\* self.client_sock, client_info = self.server_sock.accept(): the peer
\* that has waited longest is accepted
BTAccept(c) ==
  /\ variant = "bt" /\ pc = "accept" /\ Live
  /\ running
  /\ conn[c] = "pending"
  /\ \A b \in Clients : b < c => conn[b] # "pending"
  /\ client_sock' = c
  /\ conn' = [conn EXCEPT ![c] = "open"]
  /\ pc' = "accepted"
  /\ UNCHANGED << variant, send_acks, command_count, connected_clients,
                  zeroconf, service_info, server_sock, running, advertised,
                  alarm, sigalrm_handler, exc, hpc, closes, inbox, processed,
                  sent, sigint, logged, exit_status >>

\* accept() raises BluetoothError: it is logged and the accept loop goes
\* on; nothing the model records changes
BTAcceptError ==
  /\ variant = "bt" /\ pc = "accept" /\ Live
  /\ running
  /\ UNCHANGED vars

\* self.handle_client(client_addr) is entered; it blocks in recv
BTEnterHandler ==
  /\ variant = "bt" /\ pc = "accepted" /\ Live
  /\ pc' = IF running THEN "recv" ELSE "cleanup"
  /\ UNCHANGED << variant, send_acks, command_count, connected_clients,
                  zeroconf, service_info, server_sock, client_sock, running,
                  advertised, alarm, sigalrm_handler, exc, hpc, conn, closes,
                  inbox, processed, sent, sigint, logged, exit_status >>

BTAfterCommand_EndsOnInvalid(command) ==
  IF IsValid(command) THEN "recv" ELSE "cleanup"

\* neither branch of the loop body of handle_client leaves the loop: after
\* a command, valid or not, the handler is back at recv
BTAfterCommand(command) == "recv"

\* MockBluetoothRobotServer.handle_client, the body of one iteration once
\* recv has returned data: it is decoded, classified and counted and, with
\* acknowledgments, answered.  Data that does not decode, or a send on a
\* lost connection, raises, which ends the session.  rest is what stays
\* unread.
BTProcess(c, data, rest) ==
  /\ LET command == Normalize(data)
         reply == Reply(send_acks, command)
     IN IF Decodable(data)
        THEN /\ processed' = [processed EXCEPT ![c] = Append(@, data)]
             /\ command_count' = CountAfter(command_count, command)
             /\ \/ /\ sent' = [sent EXCEPT ![c] = @ \o reply]
                   /\ inbox' = [inbox EXCEPT ![c] = rest]
                   /\ conn' = conn
                   /\ pc' = BTAfterCommand(command)
                \/ /\ reply # <<>>
                   /\ sent' = sent
                   /\ inbox' = [inbox EXCEPT ![c] = <<>>]
                   /\ conn' = [conn EXCEPT ![c] = "error"]
                   /\ pc' = "cleanup"
                /\ logged' = logged
        ELSE /\ inbox' = [inbox EXCEPT ![c] = rest]
             /\ pc' = "cleanup"
             /\ logged' = logged \cup {"session_error"}
             /\ UNCHANGED << processed, command_count, sent, conn >>
  /\ UNCHANGED << variant, send_acks, connected_clients, zeroconf,
                  service_info, server_sock, client_sock, running, advertised,
                  alarm, sigalrm_handler, exc, hpc, closes, sigint,
                  exit_status >>

\* MockBluetoothRobotServer.handle_client, one iteration, when every recv
\* returns exactly the bytes of one write of the peer
BTHandleData ==
  /\ variant = "bt" /\ pc = "recv" /\ Live
  /\ client_sock # None
  /\ conn[client_sock] \in {"open", "peer_closed"}
  /\ inbox[client_sock] # <<>>
  /\ BTProcess(client_sock, Head(inbox[client_sock]),
               Tail(inbox[client_sock]))

RECURSIVE Flatten(_)
\* the bytes of a sequence of writes, in order
Flatten(seq) == IF seq = <<>> THEN <<>> ELSE Head(seq) \o Flatten(Tail(seq))

\* MockBluetoothRobotServer.handle_client, one iteration on the RFCOMM
\* byte stream: recv(1024) returns whatever part of the bytes written so
\* far has arrived, whole messages or not
BTRecvStream ==
  /\ variant = "bt" /\ pc = "recv" /\ Live
  /\ client_sock # None
  /\ conn[client_sock] \in {"open", "peer_closed"}
  /\ inbox[client_sock] # <<>>
  /\ LET bytes == Flatten(inbox[client_sock])
     IN \E k \in 1..Len(bytes) :
          BTProcess(client_sock, SubSeq(bytes, 1, k),
                    IF k = Len(bytes) THEN <<>>
                    ELSE << SubSeq(bytes, k + 1, Len(bytes)) >>)

\* recv returns no data (peer closed) or raises BluetoothError
BTSessionOver ==
  \/ conn[client_sock] = "peer_closed" /\ inbox[client_sock] = <<>>
  \/ conn[client_sock] = "error"

BTSessionEnd_Propagates ==
  /\ variant = "bt" /\ pc = "recv" /\ Live
  /\ BTSessionOver
  /\ pc' = "shutdown"
  /\ exc' = "OSError"
  /\ UNCHANGED << variant, send_acks, command_count, connected_clients,
                  zeroconf, service_info, server_sock, client_sock, running,
                  advertised, alarm, sigalrm_handler, hpc, conn, closes,
                  inbox, processed, sent, sigint, logged, exit_status >>

\* the loop of handle_client is left: break, or the except clause
BTSessionEnd ==
  /\ variant = "bt" /\ pc = "recv" /\ Live
  /\ BTSessionOver
  /\ pc' = "cleanup"
  /\ UNCHANGED << variant, send_acks, command_count, connected_clients,
                  zeroconf, service_info, server_sock, client_sock, running,
                  advertised, alarm, sigalrm_handler, exc, hpc, conn, closes,
                  inbox, processed, sent, sigint, logged, exit_status >>

\* handle_client's finally: self.client_sock.close()
BTCleanupClose ==
  /\ variant = "bt" /\ pc = "cleanup" /\ Live
  /\ conn' = [conn EXCEPT ![client_sock] = "closed"]
  /\ closes' = [closes EXCEPT ![client_sock] = @ + 1]
  /\ pc' = "cleanup_closed"
  /\ inbox' = [inbox EXCEPT ![client_sock] = <<>>]
  /\ UNCHANGED << variant, send_acks, command_count, connected_clients,
                  zeroconf, service_info, server_sock, client_sock, running,
                  advertised, alarm, sigalrm_handler, exc, hpc, processed,
                  sent, sigint, logged, exit_status >>

\* handle_client's finally: self.client_sock = None; then back to the
\* accept loop, or on to start()'s finally when SystemExit is propagating
BTCleanupClear ==
  /\ variant = "bt" /\ pc = "cleanup_closed" /\ Live
  /\ client_sock' = None
  /\ pc' = IF exc = "SystemExit" \/ ~running THEN "shutdown" ELSE "accept"
  /\ UNCHANGED << variant, send_acks, command_count, connected_clients,
                  zeroconf, service_info, server_sock, running, advertised,
                  alarm, sigalrm_handler, exc, hpc, conn, closes, inbox,
                  processed, sent, sigint, logged, exit_status >>

\* where the SystemExit raised by signal_handler takes the main thread:
\* inside handle_client's try it runs the finally block first, elsewhere
\* it goes straight to start()'s finally (shutdown)
AfterSysExit(at) ==
  IF at = "recv" THEN "cleanup" ELSE "shutdown"

\* signal_handler: Ctrl+C raises SystemExit(0) at the main thread's
\* current position
BTSigint ==
  /\ variant = "bt" /\ Live
  /\ ~sigint
  /\ pc \in {"accept", "accepted", "recv", "cleanup", "cleanup_closed"}
  /\ sigint' = TRUE
  /\ exc' = "SystemExit"
  /\ pc' = AfterSysExit(pc)
  /\ UNCHANGED << variant, send_acks, command_count, connected_clients,
                  zeroconf, service_info, server_sock, client_sock, running,
                  advertised, alarm, sigalrm_handler, hpc, conn, closes,
                  inbox, processed, sent, logged, exit_status >>

\* Ctrl+C while handle_client's finally is inside
\* "try: self.client_sock.close() / except: pass": the bare except
\* swallows the SystemExit and the server goes on
BTSigintSwallowed ==
  /\ variant = "bt" /\ pc = "cleanup" /\ Live
  /\ ~sigint
  /\ sigint' = TRUE
  /\ conn' = [conn EXCEPT ![client_sock] = "closed"]
  /\ closes' = [closes EXCEPT ![client_sock] = @ + 1]
  /\ pc' = "cleanup_closed"
  /\ inbox' = [inbox EXCEPT ![client_sock] = <<>>]
  /\ UNCHANGED << variant, send_acks, command_count, connected_clients,
                  zeroconf, service_info, server_sock, client_sock, running,
                  advertised, alarm, sigalrm_handler, exc, hpc, processed,
                  sent, logged, exit_status >>

\* MockBluetoothRobotServer.shutdown: self.running = False
BTShutdownBegin ==
  /\ variant = "bt" /\ pc = "shutdown" /\ Live
  /\ running' = FALSE
  /\ pc' = "sd_client"
  /\ UNCHANGED << variant, send_acks, command_count, connected_clients,
                  zeroconf, service_info, server_sock, client_sock,
                  advertised, alarm, sigalrm_handler, exc, hpc, conn, closes,
                  inbox, processed, sent, sigint, logged, exit_status >>

\* shutdown: if self.client_sock: self.client_sock.close()
BTShutdownClient ==
  /\ variant = "bt" /\ pc = "sd_client" /\ Live
  /\ IF client_sock # None
     THEN /\ conn' = [conn EXCEPT ![client_sock] = "closed"]
          /\ closes' = [closes EXCEPT ![client_sock] = @ + 1]
          /\ inbox' = [inbox EXCEPT ![client_sock] = <<>>]
     ELSE UNCHANGED << conn, closes, inbox >>
  /\ pc' = "sd_adv"
  /\ UNCHANGED << variant, send_acks, command_count, connected_clients,
                  zeroconf, service_info, server_sock, client_sock, running,
                  advertised, alarm, sigalrm_handler, exc, hpc, processed,
                  sent, sigint, logged, exit_status >>

\* shutdown: bluetooth.stop_advertising(self.server_sock); an error is
\* swallowed
BTShutdownStopAdvertising ==
  /\ variant = "bt" /\ pc = "sd_adv" /\ Live
  /\ IF server_sock # "None"
     THEN \/ advertised' = IF advertised = "published" THEN "retracted"
                           ELSE advertised
          \/ advertised' = advertised
     ELSE advertised' = advertised
  /\ pc' = "sd_close"
  /\ UNCHANGED << variant, send_acks, command_count, connected_clients,
                  zeroconf, service_info, server_sock, client_sock, running,
                  alarm, sigalrm_handler, exc, hpc, conn, closes, inbox,
                  processed, sent, sigint, logged, exit_status >>

\* shutdown: self.server_sock.close(); an error is swallowed
BTShutdownCloseServer ==
  /\ variant = "bt" /\ pc = "sd_close" /\ Live
  /\ IF server_sock # "None"
     THEN server_sock' \in {"closed", server_sock}
     ELSE server_sock' = server_sock
  /\ pc' = "summary"
  /\ UNCHANGED << variant, send_acks, command_count, connected_clients,
                  zeroconf, service_info, client_sock, running, advertised,
                  alarm, sigalrm_handler, exc, hpc, conn, closes, inbox,
                  processed, sent, sigint, logged, exit_status >>

\* shutdown: the summary and "Server stopped"
BTSummary ==
  /\ variant = "bt" /\ pc = "summary" /\ Live
  /\ logged' = logged \cup {"summary", "stopped"}
  /\ pc' = "stopped"
  /\ UNCHANGED << variant, send_acks, command_count, connected_clients,
                  zeroconf, service_info, server_sock, client_sock, running,
                  advertised, alarm, sigalrm_handler, exc, hpc, conn, closes,
                  inbox, processed, sent, sigint, exit_status >>

\* exit status of the Bluetooth program: sys.exit(0) in signal_handler, or
\* main() returning after start() returned
BTExitStatus(e) == "0"

\* the process ends: SystemExit(0) reaches the top, or main() returns
BTExit ==
  /\ variant = "bt" /\ pc = "stopped" /\ Live
  /\ exit_status' = BTExitStatus(exc)
  /\ pc' = "exited"
  /\ UNCHANGED << variant, send_acks, command_count, connected_clients,
                  zeroconf, service_info, server_sock, client_sock, running,
                  advertised, alarm, sigalrm_handler, exc, hpc, conn, closes,
                  inbox, processed, sent, sigint, logged >>

BTNext ==
  \/ BTBind
  \/ BTAdvertise
  \/ \E c \in Clients : BTClientConnect(c)
  \/ \E c \in Clients : BTAccept(c)
  \/ BTAcceptError
  \/ BTEnterHandler
  \/ BTHandleData
  \/ BTSessionEnd
  \/ BTCleanupClose
  \/ BTCleanupClear
  \/ BTSigint
  \/ BTSigintSwallowed
  \/ BTShutdownBegin
  \/ BTShutdownClient
  \/ BTShutdownStopAdvertising
  \/ BTShutdownCloseServer
  \/ BTSummary
  \/ BTExit

WSNext ==
  \/ WSRegisterMdns
  \/ WSServe
  \/ \E c \in Clients : WSConnect(c)
  \/ \E c \in Clients : WSHandleMessage(c)
  \/ \E c \in Clients : WSHandlerExit(c)
  \/ WSInterrupt
  \/ WSStartReturn
  \/ WSUnregisterMdns
  \/ WSSummary
  \/ WSExit
  \/ AlarmFires

EnvNext ==
  \/ \E c \in Clients, m \in Messages : ClientSend(c, m)
  \/ \E c \in Clients : ClientClose(c)
  \/ \E c \in Clients : ClientAbort(c)

Next == WSNext \/ BTNext \/ EnvNext

Spec == Init /\ [][Next]_vars


\* ------------------------------------------------ the command validator
\* Inputs for checking the classification on its own: the five commands in
\* several spellings, near misses (prefixes, substrings, extensions,
\* aliases, inner whitespace), each with and without surrounding whitespace.
ValidatorWords ==
  { <<"i","n","i","t">>,
    <<"I","N","I","T">>,
    <<"I","n","I","t">>,
    <<"f","o","r","w","a","r","d">>,
    <<"F","O","R","W","A","R","D">>,
    <<"F","o","R","w","A","r","D">>,
    <<"b","a","c","k","w","a","r","d">>,
    <<"B","A","C","K","W","A","R","D">>,
    <<"b","A","c","K","w","A","r","D">>,
    <<"l","e","f","t">>,
    <<"L","E","F","T">>,
    <<"L","e","f","t">>,
    <<"r","i","g","h","t">>,
    <<"R","I","G","H","T">>,
    <<"r","I","G","H","T">>,
    <<>>,
    <<"f","o","r">>,
    <<"f","o","r","w","a","r">>,
    <<"f","o","r","w","a","r","d","s">>,
    <<"l","l","e","f","t">>,
    <<"i","g","h","t">>,
    <<"f","w","d">>,
    <<"b","a","c","k">>,
    <<"l">>,
    <<"f","o","r"," ","w","a","r","d">>,
    <<"f","o","r","w","a","r","d"," ","l","e","f","t">>,
    <<"s","p","i","n">>,
    <<"S","T","O","P">>,
    <<"i","n","i","t","!">>,
    <<"1">> }

LeadingPads ==
  { <<>>,
    <<" ">>,
    <<"\n">>,
    <<"\t"," ">> }

TrailingPads ==
  { <<>>,
    <<" ">>,
    <<"\n">>,
    <<"\r","\n">> }

ValidatorInputs ==
  { a \o w \o b : a \in LeadingPads, w \in ValidatorWords, b \in TrailingPads }

\* A running server with one connected client that has sent the same text
\* twice; the session is about to read it.
InitValidator ==
  /\ variant \in {"ws", "bt"}
  /\ send_acks \in BOOLEAN
  /\ command_count = 0
  /\ connected_clients = IF variant = "ws" THEN {1} ELSE {}
  /\ zeroconf = (variant = "ws")
  /\ service_info = (variant = "ws")
  /\ server_sock = "listening"
  /\ client_sock = IF variant = "bt" THEN 1 ELSE None
  /\ running = (variant = "bt")
  /\ advertised = "published"
  /\ alarm = FALSE
  /\ sigalrm_handler = "default"
  /\ pc = IF variant = "ws" THEN "running" ELSE "recv"
  /\ exc = "none"
  /\ hpc = [c \in Clients |-> IF variant = "ws" /\ c = 1 THEN "recv" ELSE "none"]
  /\ conn = [c \in Clients |-> IF c = 1 THEN "open" ELSE "idle"]
  /\ closes = [c \in Clients |-> 0]
  /\ \E m \in ValidatorInputs :
       inbox = [c \in Clients |-> IF c = 1 THEN <<m, m>> ELSE <<>>]
  /\ processed = [c \in Clients |-> <<>>]
  /\ sent = [c \in Clients |-> <<>>]
  /\ sigint = FALSE
  /\ logged = {}
  /\ exit_status = "running"

NextValidator ==
  \/ \E c \in Clients : WSHandleMessage(c)
  \/ BTHandleData

SpecValidator == InitValidator /\ [][NextValidator]_vars

\* ------------------------------------------------------ message framing
\* Newline-terminated messages a client writes back to back.
FramingMessages ==
  { <<"f","o","r","w","a","r","d","\n">>,
    <<"l","e","f","t","\n">>,
    <<"s","p","i","n","\n">> }

\* A running server with one connected client that has written two
\* messages back to back; the session is about to read.
InitFraming ==
  /\ variant \in {"ws", "bt"}
  /\ send_acks \in BOOLEAN
  /\ command_count = 0
  /\ connected_clients = IF variant = "ws" THEN {1} ELSE {}
  /\ zeroconf = (variant = "ws")
  /\ service_info = (variant = "ws")
  /\ server_sock = "listening"
  /\ client_sock = IF variant = "bt" THEN 1 ELSE None
  /\ running = (variant = "bt")
  /\ advertised = "published"
  /\ alarm = FALSE
  /\ sigalrm_handler = "default"
  /\ pc = IF variant = "ws" THEN "running" ELSE "recv"
  /\ exc = "none"
  /\ hpc = [c \in Clients |->
             IF variant = "ws" /\ c = 1 THEN "recv" ELSE "none"]
  /\ conn = [c \in Clients |-> IF c = 1 THEN "open" ELSE "idle"]
  /\ closes = [c \in Clients |-> 0]
  /\ \E m1, m2 \in FramingMessages :
       inbox = [c \in Clients |-> IF c = 1 THEN <<m1, m2>> ELSE <<>>]
  /\ processed = [c \in Clients |-> <<>>]
  /\ sent = [c \in Clients |-> <<>>]
  /\ sigint = FALSE
  /\ logged = {}
  /\ exit_status = "running"

\* the WebSocket library delivers one message per frame; the RFCOMM socket
\* delivers a byte stream
NextFraming ==
  \/ \E c \in Clients : WSHandleMessage(c)
  \/ BTRecvStream

SpecFraming == InitFraming /\ [][NextFraming]_vars

\* a second specification: the server's own steps are weakly fair (the main
\* thread and every handler task keep running); clients, signals and
\* failures are not forced to happen
ServerStep ==
  \/ WSRegisterMdns \/ WSServe \/ WSStartReturn
  \/ WSUnregisterMdns \/ WSSummary \/ WSExit
  \/ \E c \in Clients : WSHandleMessage(c) \/ WSHandlerExit(c)
  \/ BTBind \/ BTAdvertise \/ BTEnterHandler \/ BTHandleData
  \/ BTSessionEnd \/ BTCleanupClose \/ BTCleanupClear \/ BTShutdownBegin
  \/ BTShutdownClient \/ BTShutdownStopAdvertising \/ BTShutdownCloseServer
  \/ BTSummary \/ BTExit

FairSpec == Spec /\ WF_vars(ServerStep)

\* ================================================================ claims
\* The statements below describe the expected behaviour independently of
\* the operators the actions use.

Commands ==
  { <<"i","n","i","t">>, <<"f","o","r","w","a","r","d">>,
    <<"b","a","c","k","w","a","r","d">>, <<"l","e","f","t">>,
    <<"r","i","g","h","t">> }

SetMin(S) == CHOOSE x \in S : \A y \in S : x <= y
SetMax(S) == CHOOSE x \in S : \A y \in S : x >= y

\* the text without its surrounding whitespace
Trimmed(s) ==
  LET idx == {i \in 1..Len(s) : s[i] \notin Whitespace}
  IN IF idx = {} THEN <<>> ELSE SubSeq(s, SetMin(idx), SetMax(idx))

IsUpper(ch) == \E i \in 1..Len(UpperChars) : UpperChars[i] = ch

SameLetter(a, b) ==
  a = b \/ \E i \in 1..Len(UpperChars) : {a, b} = {UpperChars[i], LowerChars[i]}

EqualIgnoreCase(s, t) ==
  Len(s) = Len(t) /\ \A i \in 1..Len(s) : SameLetter(s[i], t[i])

\* q is the lower-case form of s
IsLowerCaseOf(q, s) ==
  EqualIgnoreCase(q, s) /\ \A i \in 1..Len(q) : ~IsUpper(q[i])

IsCommandText(m) == \E cmd \in Commands : EqualIgnoreCase(Trimmed(m), cmd)
CommandOf(m) == CHOOSE cmd \in Commands : EqualIgnoreCase(Trimmed(m), cmd)

OkPrefix == <<"O","K",":">>
ErrorPrefix ==
  <<"E","R","R","O","R",":","U","n","k","n","o","w","n"," ",
    "c","o","m","m","a","n","d"," ","'">>

RECURSIVE SumValid(_)
SumValid(n) ==
  IF n = 0 THEN 0
  ELSE Cardinality({i \in 1..Len(processed[n]) : IsCommandText(processed[n][i])})
       + SumValid(n - 1)

\* number of messages classified so far, over all sessions, whose text is
\* one of the five commands
ValidSoFar == SumValid(NumClients)

\* the connection of client c is lost or closed
ConnectionGone(c) == conn[c] \in {"error", "closed"}

\* with acknowledgments enabled the i-th message of a session is answered
\* by the i-th message written to it; only the last one may be unanswered,
\* and only because the connection was lost before the reply was written
AnsweredInOrder(c) ==
  /\ Len(sent[c]) <= Len(processed[c])
  /\ Len(sent[c]) >= Len(processed[c]) - 1
  /\ Len(sent[c]) < Len(processed[c]) => ConnectionGone(c)

\* C1: command_count always equals the number of messages classified so far,
\* over all sessions past and present, whose text is a valid command; an
\* invalid message never changes it and it never decreases.
C1_CountEqualsValid ==
  /\ [](command_count = ValidSoFar)
  /\ [][command_count' >= command_count]_vars

C1_Witness ==
  /\ command_count = 1
  /\ \E c, d \in Clients :
       /\ c # d
       /\ \E i \in 1..Len(processed[c]) : IsCommandText(processed[c][i])
       /\ \E i \in 1..Len(processed[d]) : ~IsCommandText(processed[d][i])

\* C2: with acknowledgments enabled, every message whose trimmed text is
\* case-insensitively one of the five commands is answered, on the same
\* session, by exactly OK:<canonical lower-case command>.
C2_ValidAnsweredOk ==
  send_acks =>
    \A c \in Clients :
      /\ AnsweredInOrder(c)
      /\ \A i \in 1..Len(processed[c]) :
           (IsCommandText(processed[c][i]) /\ i <= Len(sent[c])) =>
             sent[c][i] = OkPrefix \o CommandOf(processed[c][i])

C2_Witness ==
  /\ send_acks
  /\ \E c \in Clients :
       /\ processed[c] = << <<" ","F","o","R","w","A","r","D","\n">> >>
       /\ sent[c] = << <<"O","K",":","f","o","r","w","a","r","d">> >>

\* the i-th reply on session c is ERROR:Unknown command '<q>'
IsErrorReply(r, q) == r = ErrorPrefix \o q \o <<"'">>

\* C3 (as stated): with acknowledgments enabled every invalid message is
\* answered by ERROR:Unknown command '<text>' quoting the message text
\* exactly as the client sent it.
C3_ErrorQuotesOriginal ==
  send_acks =>
    \A c \in Clients : \A i \in 1..Len(sent[c]) :
      ~IsCommandText(processed[c][i]) =>
        IsErrorReply(sent[c][i], processed[c][i])

\* C3 (amended): with acknowledgments enabled every invalid message is
\* answered by ERROR:Unknown command '<text>' where <text> is the message
\* text trimmed of surrounding whitespace and lower-cased.
C3_ErrorQuotesNormalized ==
  send_acks =>
    \A c \in Clients :
      /\ AnsweredInOrder(c)
      /\ \A i \in 1..Len(sent[c]) :
           ~IsCommandText(processed[c][i]) =>
             LET r == sent[c][i]
                 t == Trimmed(processed[c][i])
                 n == Len(ErrorPrefix)
             IN /\ Len(r) = n + Len(t) + 1
                /\ SubSeq(r, 1, n) = ErrorPrefix
                /\ r[Len(r)] = "'"
                /\ IsLowerCaseOf(SubSeq(r, n + 1, Len(r) - 1), t)

C3_Witness ==
  /\ send_acks
  /\ \E c \in Clients :
       /\ processed[c] = << <<" ","S","p","i","n"," ">> >>
       /\ sent[c] = << ErrorPrefix \o <<"s","p","i","n","'">> >>

\* C4: with acknowledgments disabled no session ever writes anything to
\* its client, whatever it has received.
C4_NoAckWhenDisabled ==
  ~send_acks => \A c \in Clients : sent[c] = <<>>

C4_Witness ==
  /\ ~send_acks
  /\ \E c, d \in Clients :
       /\ \E i \in 1..Len(processed[c]) : IsCommandText(processed[c][i])
       /\ \E i \in 1..Len(processed[d]) : ~IsCommandText(processed[d][i])


\* C5: a message is classified as a valid command (counted) exactly when
\* its trimmed text is case-insensitively equal to one of init, forward,
\* backward, left, right; prefixes, substrings and aliases are rejected;
\* the same text classified twice gets the same result.
C5_ValidIffCommandText ==
  /\ [][\A c \in Clients :
          Len(processed'[c]) = Len(processed[c]) + 1 =>
            LET m == processed'[c][Len(processed'[c])]
            IN IF IsCommandText(m)
               THEN command_count' = command_count + 1
               ELSE command_count' = command_count]_vars
  /\ [](\A c \in Clients :
          (Len(processed[c]) = 2 /\ processed[c][1] = processed[c][2]) =>
            command_count = IF IsCommandText(processed[c][1]) THEN 2 ELSE 0)

C5_Witness ==
  /\ command_count = 2
  /\ \E c \in Clients :
       processed[c] = << <<"\t"," ","b","A","c","K","w","A","r","D","\r","\n">>,
                         <<"\t"," ","b","A","c","K","w","A","r","D","\r","\n">> >>


\* the sessions the server currently holds as active
ActiveSessions ==
  IF variant = "ws" THEN connected_clients
  ELSE IF client_sock = None THEN {} ELSE {client_sock}

\* C6: in the WebSocket variant, when one client's session ends its
\* connection leaves connected_clients, while every other session stays
\* registered and keeps its position, its connection, its unread messages,
\* its counted commands and its replies.
C6_DisconnectLeavesOthers ==
  /\ [](variant = "ws" =>
          connected_clients = {c \in Clients : hpc[c] = "recv"})
  /\ [][\A c \in Clients :
          (variant = "ws" /\ hpc[c] = "recv" /\ hpc'[c] = "done") =>
            /\ connected_clients' = connected_clients \ {c}
            /\ command_count' = command_count
            /\ \A d \in Clients \ {c} :
                 /\ hpc'[d] = hpc[d] /\ conn'[d] = conn[d]
                 /\ inbox'[d] = inbox[d]
                 /\ processed'[d] = processed[d] /\ sent'[d] = sent[d]]_vars

C6_Witness ==
  /\ variant = "ws" /\ send_acks /\ pc = "running"
  /\ \E c, d \in Clients :
       /\ hpc[c] = "done" /\ c \notin connected_clients
       /\ d \in connected_clients /\ hpc[d] = "recv"
       /\ processed[d] # <<>> /\ Len(sent[d]) = Len(processed[d])
       /\ IsCommandText(processed[d][1]) /\ command_count >= 1

\* C7 (as stated): once shutdown is triggered, every session's connection
\* is closed and the server eventually reaches Stopped (summary and
\* "Server stopped" logged), whatever the clients and the retraction do.
C7_ShutdownReachesStopped ==
  sigint ~> ( /\ "stopped" \in logged
              /\ \A c \in Clients : conn[c] \notin {"open", "peer_closed", "error"} )

\* binding the transport failed at startup
BindFailed ==
  \/ variant = "ws" /\ exc = "OSError"
  \/ variant = "bt" /\ "bind_failed" \in logged

\* C8 (as stated): a process whose bind failed at startup exits with a
\* failure status after logging the cause; a process ended by an interrupt
\* exits with status 0.
C8_ExitStatus ==
  exit_status \in {"0", "1"} =>
    /\ BindFailed =>
         /\ exit_status = "1"
         /\ ("bind_failed" \in logged \/ "traceback" \in logged)
    /\ sigint => exit_status = "0"

\* C9: in the WebSocket variant a failed registration of the discovery
\* record is logged and nothing else: no exception leaves register_mdns,
\* nothing is advertised, and start() goes on to bind and serve; it stops
\* serving only through a bind failure or an interrupt.
C9_MdnsFailureNotFatal ==
  (variant = "ws" /\ "mdns_failed" \in logged) =>
    /\ advertised = "none"
    /\ exc \in {"none", "OSError"}
    /\ pc \notin {"start", "serve", "running"} => (sigint \/ exc = "OSError")
    /\ pc = "running" => server_sock = "listening"

C9_Witness ==
  /\ variant = "ws" /\ "mdns_failed" \in logged /\ send_acks
  /\ pc = "running"
  /\ \E c \in Clients :
       /\ c \in connected_clients
       /\ processed[c] # <<>> /\ Len(sent[c]) = Len(processed[c])
       /\ command_count >= 1

\* the session of an accepted client has ended
SessionEnded(c) ==
  \/ variant = "ws" /\ hpc[c] = "done"
  \/ /\ variant = "bt" /\ conn[c] \notin {"idle", "pending"}
     /\ \/ client_sock # c
        \/ pc \in {"sd_adv", "sd_close", "summary", "stopped", "exited"}

\* C10 (as stated): once a session has ended, on whatever path, its
\* connection has been closed exactly once and the session is no longer in
\* the server's active-session collection.
C10_ClosedOnceAndRemoved ==
  \A c \in Clients :
    SessionEnded(c) => (closes[c] = 1 /\ c \notin ActiveSessions)

\* the main thread is past the retraction step of shutdown
RetractionStepDone ==
  \/ variant = "ws" /\ pc \in {"summary", "stopped", "exited", "killed"}
  \/ variant = "bt" /\ pc \in {"sd_close", "summary", "stopped", "exited"}

\* the main thread is past the step of shutdown that closes the listener
ListenerStepDone ==
  variant = "bt" /\ pc \in {"summary", "stopped", "exited"}

\* the retraction was attempted on a published record and did not succeed
RetractionFailed == RetractionStepDone /\ advertised = "published"

\* closing the listening endpoint was attempted and did not succeed
ListenerCloseFailed ==
  ListenerStepDone /\ server_sock \in {"created", "listening"}

\* some log line reports a failed shutdown step
ShutdownFailureLogged ==
  logged \cap {"mdns_timeout", "mdns_error", "retract_failed",
               "listener_close_failed"} # {}

\* C11 (as stated): a shutdown step that fails (retracting the
\* advertisement, closing the listening endpoint) is logged, and shutdown
\* goes on.
C11_ShutdownFailuresLogged ==
  (RetractionFailed \/ ListenerCloseFailed) => ShutdownFailureLogged

\* the main thread is past the step of shutdown that closes the sessions
SessionsStepDone ==
  \/ variant = "ws" /\ pc \in {"wait_closed", "shutdown", "summary",
                                "stopped", "exited", "killed"}
  \/ variant = "bt" /\ pc \in {"sd_adv", "sd_close", "summary", "stopped",
                                "exited"}

\* C12 (as stated): on shutdown, in both variants, the sessions are closed
\* first, then the advertisement is retracted, then the listening endpoint
\* is closed, then the summary is emitted: the listening endpoint is never
\* closed while a published advertisement still awaits its retraction
\* step, and the summary is never emitted before the retraction and the
\* session closes have run.
C12_ShutdownOrder ==
  /\ (server_sock = "closed" /\ advertised = "published") =>
       RetractionStepDone
  /\ RetractionStepDone => SessionsStepDone
  /\ "summary" \in logged => RetractionStepDone
  /\ variant = "bt" /\ RetractionStepDone => ~running

RECURSIVE CompleteLines(_)
\* the newline-terminated messages contained in a byte sequence, without
\* their terminators; bytes after the last newline are not a message yet
CompleteLines(bytes) ==
  IF \A i \in 1..Len(bytes) : bytes[i] # "\n" THEN <<>>
  ELSE LET n == SetMin({i \in 1..Len(bytes) : bytes[i] = "\n"})
       IN << SubSeq(bytes, 1, n - 1) >>
          \o CompleteLines(SubSeq(bytes, n + 1, Len(bytes)))

RECURSIVE Concat(_)
Concat(seq) == IF seq = <<>> THEN <<>> ELSE Head(seq) \o Concat(Tail(seq))

\* the delimited messages session c has read so far
MessagesRead(c) == CompleteLines(Concat(processed[c]))

RECURSIVE SumValidRead(_)
SumValidRead(n) ==
  IF n = 0 THEN 0
  ELSE Cardinality({i \in 1..Len(MessagesRead(n)) :
                      IsCommandText(MessagesRead(n)[i])})
       + SumValidRead(n - 1)

\* C13 (as stated): however the transport groups the bytes into reads,
\* each newline-delimited message is validated, counted and acknowledged
\* on its own: once a session has read all its client wrote, the counter
\* equals the number of delimited messages that are commands and, with
\* acknowledgments, the session has written one reply per delimited
\* message.
C13_OneMessagePerRead ==
  (\A c \in Clients : inbox[c] = <<>>) =>
    /\ command_count = SumValidRead(NumClients)
    /\ send_acks =>
         \A c \in Clients :
           ~ConnectionGone(c) => Len(sent[c]) = Len(MessagesRead(c))

\* client d waits for the server: its connection is not accepted yet, or
\* a message it sent is unread
AwaitsService(d) ==
  \/ conn[d] = "pending"
  \/ conn[d] = "open" /\ inbox[d] # <<>>

\* the server is blocked reading from the idle session of client c: the
\* connection is open and c has sent nothing
BlockedOn(c) ==
  /\ variant = "bt" /\ pc = "recv" /\ client_sock = c
  /\ conn[c] = "open" /\ inbox[c] = <<>>

\* C14 (as stated): in both variants no client waits for service while
\* the server is blocked on another client's idle session.
C14_NoSessionBlocksAnother ==
  \A c, d \in Clients :
    (c # d /\ Live /\ AwaitsService(d)) => ~BlockedOn(c)

\* C15: an error inside a session (transport error, undecodable data)
\* stays inside the session.  Nothing but the interrupt ever propagates on
\* the main thread of a server that has started serving; the step that
\* ends a session leaves the acceptor's state alone; undecodable data is
\* logged; and after the session's cleanup the Bluetooth server is back in
\* its accept loop, still running and listening.
C15_SessionErrorStaysInSession ==
  /\ [](variant = "bt" =>
          /\ exc \in {"none", "SystemExit"}
          /\ exc = "SystemExit" => sigint)
  /\ [](variant = "ws" /\ pc = "running" => exc = "none")
  /\ [][(variant = "bt" /\ pc = "recv" /\ pc' = "cleanup"
           /\ sigint' = sigint) =>
          /\ exc' = exc /\ running' = running
          /\ server_sock' = server_sock
          /\ (inbox[client_sock] # <<>> /\ conn' = conn) =>
               "session_error" \in logged']_vars
  /\ [][(variant = "bt" /\ pc = "cleanup_closed" /\ pc' # pc
           /\ sigint' = sigint /\ exc = "none") =>
          /\ pc' = "accept" /\ client_sock' = None
          /\ running' /\ server_sock' = "listening"]_vars
  /\ [][\A c \in Clients :
          (variant = "ws" /\ hpc[c] = "recv" /\ hpc'[c] = "done") =>
            /\ pc' = pc /\ exc' = exc
            /\ server_sock' = server_sock]_vars

C15_Witness ==
  /\ variant = "bt" /\ ~sigint
  /\ "session_error" \in logged
  /\ conn[1] = "closed"
  /\ client_sock = 2 /\ pc = "recv"

\* session c is still being served
Serving(c) ==
  \/ variant = "ws" /\ hpc[c] = "recv" /\ c \in connected_clients
  \/ variant = "bt" /\ pc = "recv" /\ client_sock = c /\ running

\* C16: an invalid message does not end the session.  The step that
\* classifies an invalid message (and, with acknowledgments, writes the
\* ERROR reply) leaves the session being served and its connection as it
\* was, and a valid command that follows an invalid one on the same session
\* is counted and, with acknowledgments, answered OK.
C16_InvalidDoesNotEndSession ==
  /\ [][\A c \in Clients :
          (/\ Len(processed'[c]) = Len(processed[c]) + 1
           /\ ~IsCommandText(processed'[c][Len(processed'[c])])
           /\ conn'[c] = conn[c]) =>
            /\ Serving(c)'
            /\ command_count' = command_count
            /\ send_acks => Len(sent'[c]) = Len(sent[c]) + 1]_vars
  /\ [](\A c \in Clients : \A i, j \in 1..Len(processed[c]) :
          (/\ i < j
           /\ ~IsCommandText(processed[c][i])
           /\ IsCommandText(processed[c][j])) =>
            /\ command_count >= 1
            /\ (send_acks /\ j <= Len(sent[c])) =>
                 sent[c][j] = OkPrefix \o CommandOf(processed[c][j]))

C16_Witness ==
  /\ send_acks /\ command_count = 1
  /\ \E c \in Clients :
       /\ Serving(c)
       /\ processed[c] = << <<" ","S","p","i","n"," ">>,
                            <<" ","F","o","R","w","A","r","D","\n">> >>
       /\ Len(sent[c]) = 2

\* C17 (as stated): in both variants the advertisement is published only
\* after the listening endpoint is bound, and sessions are served only
\* after that.
C17_BindBeforeAdvertise ==
  /\ advertised = "published" => server_sock \in {"listening", "closed"}
  /\ \A c \in Clients : conn[c] # "idle" => server_sock # "None"

\* the WebSocket server registered its advertisement successfully
Registered ==
  variant = "ws" /\ zeroconf /\ service_info /\ "mdns_failed" \notin logged

\* what a retraction attempt leaves behind: the record retracted, or a
\* warning about the timeout or the error
RetractionTrace ==
  \/ advertised = "retracted"
  \/ logged \cap {"mdns_timeout", "mdns_error"} # {}

\* the main thread of the WebSocket server is past unregister_mdns
AfterUnregister == pc \in {"summary", "stopped", "exited", "killed"}

\* C18: in the WebSocket variant a successfully registered advertisement
\* is retracted by exactly one attempt on every shutdown path: none before
\* shutdown() runs, one when it runs, none afterwards.  When the attempt
\* times out, the warning is logged, no alarm stays armed, and the main
\* thread's next steps are the summary with "Server stopped" and the exit.
C18_RetractionOnceThenStop ==
  /\ [](Registered =>
          /\ ~AfterUnregister => (~RetractionTrace /\ advertised = "published")
          /\ AfterUnregister => RetractionTrace)
  /\ [][(Registered /\ AfterUnregister) =>
          /\ AfterUnregister'
          /\ advertised' = advertised
          /\ logged' \cap {"mdns_timeout", "mdns_error"}
               = logged \cap {"mdns_timeout", "mdns_error"}]_vars
  /\ []((Registered /\ "mdns_timeout" \in logged) =>
          /\ ~alarm /\ advertised = "published"
          /\ exit_status \in {"running", "0", "1"}
          /\ pc = "summary" => ENABLED WSSummary
          /\ pc = "stopped" => ("stopped" \in logged /\ ENABLED WSExit)
          /\ pc = "exited" => "stopped" \in logged)

C18_Witness ==
  /\ Registered /\ sigint
  /\ "mdns_timeout" \in logged
  /\ {"summary", "stopped"} \subseteq logged
  /\ exit_status = "0"

\* the sessions that register, finish, or classify a valid command in a
\* step
Joining == {c \in Clients : hpc[c] = "none" /\ hpc'[c] = "recv"}
Leaving == {c \in Clients : hpc[c] = "recv" /\ hpc'[c] = "done"}
Counting ==
  {c \in Clients :
     /\ Len(processed'[c]) = Len(processed[c]) + 1
     /\ IsCommandText(processed'[c][Len(processed'[c])])}
Reading == {c \in Clients : processed'[c] # processed[c]}

\* C19: in the WebSocket variant the updates of the shared counter and of
\* connected_clients never overlap and none is lost: every step is a step
\* of at most one session, it adds exactly the session that registers,
\* removes exactly the session that finishes, and raises the counter by
\* exactly one for a valid command it classifies.
C19_SharedStateUpdatesNotLost ==
  [][variant = "ws" =>
       /\ Cardinality(Joining \cup Leaving \cup Reading) <= 1
       /\ connected_clients' = (connected_clients \cup Joining) \ Leaving
       /\ command_count' = command_count + Cardinality(Counting)]_vars

C19_Witness ==
  /\ variant = "ws"
  /\ command_count = 2
  /\ \E c, d \in connected_clients :
       /\ c # d
       /\ Len(processed[c]) = 1 /\ IsCommandText(processed[c][1])
       /\ Len(processed[d]) = 1 /\ IsCommandText(processed[d][1])

\* binding the listening endpoint, or advertising the Bluetooth service,
\* failed at startup
StartFailed ==
  \/ variant = "ws" /\ exc = "OSError"
  \/ variant = "bt" /\ logged \cap {"bind_failed", "advertise_failed"} # {}

\* C20: after a failed bind (or a failed Bluetooth advertisement) the
\* server is in its shutdown sequence or beyond, was never running, has
\* accepted no connection, has no session, and has read, counted and
\* written nothing.
C20_StartFailureNeverServes ==
  StartFailed =>
    /\ pc \in {"shutdown", "sd_client", "sd_adv", "sd_close", "summary",
               "stopped", "exited", "killed"}
    /\ ~running /\ ~sigint
    /\ client_sock = None /\ connected_clients = {}
    /\ command_count = 0
    /\ \A c \in Clients :
         /\ conn[c] \in {"idle", "pending"} /\ hpc[c] = "none"
         /\ processed[c] = <<>> /\ sent[c] = <<>>

C20_Witness ==
  /\ variant = "bt"
  /\ "advertise_failed" \in logged
  /\ server_sock = "closed"
  /\ "stopped" \in logged

\* r is the response to message m: OK:... for a command, ERROR:... for
\* anything else
IsResponseTo(r, m) ==
  IF IsCommandText(m)
  THEN Len(r) > Len(OkPrefix) /\ SubSeq(r, 1, Len(OkPrefix)) = OkPrefix
  ELSE Len(r) > Len(ErrorPrefix)
       /\ SubSeq(r, 1, Len(ErrorPrefix)) = ErrorPrefix

\* C21: with acknowledgments enabled each session is strictly
\* request/response.  A session reads a message only when every message
\* it read before has its response; the step that reads a message writes
\* at most one response, after those already written, to the same session
\* and to no other; a response is written only by the step that read its
\* message; the i-th response on a session answers its i-th message; and a
\* message is left without response only when the connection was lost.
C21_RequestResponse ==
  /\ [][send_acks =>
          \A c \in Clients :
            /\ processed'[c] # processed[c] =>
                 /\ Len(sent[c]) = Len(processed[c])
                 /\ Len(processed'[c]) = Len(processed[c]) + 1
                 /\ \A d \in Clients \ {c} : sent'[d] = sent[d]
            /\ sent'[c] # sent[c] =>
                 /\ processed'[c] # processed[c]
                 /\ Len(sent'[c]) = Len(sent[c]) + 1
                 /\ SubSeq(sent'[c], 1, Len(sent[c])) = sent[c]]_vars
  /\ [](send_acks =>
          \A c \in Clients :
            /\ Len(sent[c]) <= Len(processed[c])
            /\ Len(sent[c]) < Len(processed[c]) =>
                 (ConnectionGone(c) /\ Len(sent[c]) = Len(processed[c]) - 1)
            /\ \A i \in 1..Len(sent[c]) :
                 IsResponseTo(sent[c][i], processed[c][i]))

C21_Witness ==
  /\ send_acks
  /\ \E c, d \in Clients :
       /\ c # d
       /\ Len(processed[c]) = 1 /\ IsCommandText(processed[c][1])
       /\ Len(sent[c]) = 1
       /\ Len(processed[d]) = 1 /\ ~IsCommandText(processed[d][1])
       /\ Len(sent[d]) = 1

\* C22 (as stated): once unregister_mdns has returned, on whatever path,
\* the previous SIGALRM handler is back and no alarm is pending, so the
\* process is never ended by a stray SIGALRM.
C22_AlarmClearedOnExit ==
  /\ (variant = "ws" /\ AfterUnregister) =>
       (sigalrm_handler = "default" /\ ~alarm)
  /\ exit_status # "SIGALRM"

====
